---- MODULE Spec2Model ----
(***************************************************************************)
(* Model of shp2geojson (src/main.go): the geometry converters, the        *)
(* feature assembler and the main pipeline (open, per-record loop,         *)
(* getOutput, encode).                                                     *)
(***************************************************************************)
EXTENDS Integers, Sequences, FiniteSets, TLC

\* ---------------------------------------------------------------- bounds
MaxRecords == 2
MaxParts == 3
MaxPoints == 10
MaxRings == 3
MaxFields == 3

VARIABLES
    \* command line flags (src/main.go:16-22)
    input, output, ndjson, pretty,
    \* contents of the shapefile behind the Record Source
    fields, records,
    \* main()'s position and locals
    pc, n, features, out, outFile, indent, fi, sink, results, exit,
    \* one conversion call: its argument, position, locals and return value
    shape, dbfRow, cpc, i, g, poly, result

flagVars == <<input, output, ndjson, pretty>>
fileVars == <<fields, records>>
mainVars == <<pc, n, features, out, outFile, indent, fi, sink, results, exit>>
convVars == <<shape, dbfRow, cpc, i, g, poly, result>>
vars == <<flagVars, fileVars, mainVars, convVars>>

\* ------------------------------------------------------------- helpers
\* Go's s[start:end] on a sequence (0-based, end exclusive)
Slice(s, start, end) == SubSeq(s, start + 1, end)

RECURSIVE Flatten(_)
Flatten(ss) == IF ss = <<>> THEN <<>> ELSE Head(ss) \o Flatten(Tail(ss))

\* a shp.Point value
Pt(x, y) == [X |-> x, Y |-> y]

\* orb orientation values
CW == -1
CCW == 1

\* the nil orb.Geometry / the nil shp.Attribute
NilGeometry == [type |-> "null", coordinates |-> <<>>]
NilAttr == [name |-> "", value |-> "", nil |-> TRUE]

\* value returned in place of a feature when ShapeToFeature panics
Panic == [type |-> "panic", geometry |-> NilGeometry, properties |-> {}]

\* ------------------------------------------------------ the converters
convertPoint(s) == <<s.X, s.Y>>

convertPoints(ps) == [k \in 1..Len(ps) |-> convertPoint(ps[k])]

convertLineString(s) ==
    [type |-> "LineString", coordinates |-> convertPoints(s.Points)]

convertMultiPoint(s) ==
    [type |-> "MultiPoint", coordinates |-> convertPoints(s.Points)]

\* the end index of part idx (0-based), as the converters compute it
PartEndDropsLast(s, idx) ==
    IF idx < s.NumParts - 1 THEN s.Parts[idx + 2] ELSE s.Parts[idx + 1]

PartEnd(s, idx) ==
    IF idx < s.NumParts - 1 THEN s.Parts[idx + 2] ELSE s.NumPoints

\* one iteration of the loop over s.Parts: the converted part idx (0-based)
PartCoords(s, idx) ==
    convertPoints(Slice(s.Points, s.Parts[idx + 1], PartEnd(s, idx)))

convertMultiLineString(s) ==
    [type |-> "MultiLineString",
     coordinates |-> [k \in 1..Len(s.Parts) |-> PartCoords(s, k - 1)]]

\* signed shoelace sum of a ring and the orientation derived from it
RECURSIVE ShoelaceFrom(_, _)
ShoelaceFrom(r, k) ==
    IF k >= Len(r) THEN 0
    ELSE (r[k][1] * r[k + 1][2] - r[k + 1][1] * r[k][2]) + ShoelaceFrom(r, k + 1)

Orientation(r) ==
    LET area == ShoelaceFrom(r, 1)
    IN  IF area > 0 THEN CCW ELSE IF area < 0 THEN CW ELSE 0

\* one iteration of convertMultiPolygon's loop on the accumulator (g, poly)
PolyIterFlipped(acc, s, idx) ==
    LET r == PartCoords(s, idx)
    IN  IF idx = 0 THEN [g |-> acc.g, poly |-> Append(acc.poly, r)]
        ELSE IF Orientation(r) = CCW
             THEN [g |-> Append(acc.g, acc.poly), poly |-> <<r>>]
             ELSE [g |-> acc.g, poly |-> Append(acc.poly, r)]

PolyIter(acc, s, idx) ==
    LET r == PartCoords(s, idx)
    IN  IF idx = 0 THEN [g |-> acc.g, poly |-> Append(acc.poly, r)]
        ELSE IF Orientation(r) = CW
             THEN [g |-> Append(acc.g, acc.poly), poly |-> <<r>>]
             ELSE [g |-> acc.g, poly |-> Append(acc.poly, r)]

RECURSIVE PolyScan(_, _)
PolyScan(s, cnt) ==
    IF cnt = 0 THEN [g |-> <<>>, poly |-> <<>>]
    ELSE PolyIter(PolyScan(s, cnt - 1), s, cnt - 1)

\* the value returned after the loop
PolyReturnValue(acc) == acc.g

convertMultiPolygon(s) ==
    [type |-> "MultiPolygon",
     coordinates |-> PolyReturnValue(PolyScan(s, Len(s.Parts)))]

\* ------------------------------------------------- the feature assembler
\* f.Properties[name] = value on a map kept as a set of (name, value) pairs
PutProperty(props, name, value) ==
    {p \in props : p.name # name} \cup {[name |-> name, value |-> value]}

RECURSIVE SetProperties(_, _)
SetProperties(props, attrs) ==
    IF attrs = <<>> THEN props
    ELSE SetProperties(PutProperty(props, Head(attrs).name, Head(attrs).value),
                       Tail(attrs))

Keys(props) == {p.name : p \in props}

SupportedTypes == {"Point", "PolyLine", "PolyLineZ", "Polygon", "MultiPoint"}

ShapeGeometry(s) ==
    CASE s.type = "Point" -> [type |-> "Point", coordinates |-> convertPoint(s)]
      [] s.type \in {"PolyLine", "PolyLineZ"} ->
            IF s.NumParts = 1 THEN convertLineString(s)
            ELSE IF s.NumParts > 1 THEN convertMultiLineString(s)
            ELSE NilGeometry
      [] s.type = "Polygon" -> convertMultiPolygon(s)
      [] s.type = "MultiPoint" -> convertMultiPoint(s)

ShapeToFeature(s, attrs) ==
    IF s.type \notin SupportedTypes THEN Panic
    ELSE [type |-> "Feature",
          geometry |-> ShapeGeometry(s),
          properties |-> SetProperties({}, attrs)]

\* reader.ReadAttribute(n, k) on the dbf row of record n
ReadAttribute(flds, row, k) ==
    IF row[k].ok THEN [name |-> flds[k], value |-> row[k].value, nil |-> FALSE]
    ELSE NilAttr

\* the loop over fields in main: the non-nil attributes, in field order
RECURSIVE ReadAttrsAll(_, _, _)
ReadAttrsAll(flds, row, k) ==
    IF k > Len(flds) THEN <<>>
    ELSE <<ReadAttribute(flds, row, k)>> \o ReadAttrsAll(flds, row, k + 1)

RECURSIVE ReadAttrs(_, _, _)
ReadAttrs(flds, row, k) ==
    IF k > Len(flds) THEN <<>>
    ELSE LET attr == ReadAttribute(flds, row, k)
         IN  (IF attr # NilAttr THEN <<attr>> ELSE <<>>)
             \o ReadAttrs(flds, row, k + 1)

\* ------------------------------------------------------------- inputs
\* start indices of numParts parts over numPoints points: parts[0] = 0,
\* non-decreasing, every index within the point buffer
PartsOf(numParts, numPoints) ==
    {ps \in [1..numParts -> 0..numPoints] :
        /\ numParts > 0 => ps[1] = 0
        /\ \A k \in 1..(numParts - 1) : ps[k] <= ps[k + 1]}

\* a point buffer of numPoints pairwise different points
PointBuffer(numPoints) == [k \in 1..numPoints |-> Pt(k, 2 * k)]

PolyLineShapes ==
    {[type |-> "PolyLine", Parts |-> ps, Points |-> PointBuffer(np),
      NumParts |-> Len(ps), NumPoints |-> np] :
        <<np, ps>> \in UNION {{<<np, ps>> : ps \in PartsOf(k, np)} :
                       <<k, np>> \in (0..MaxParts) \X (0..MaxPoints)}}

\* the same shape with an elevation per point
WithZ(s) ==
    [type |-> "PolyLineZ", Parts |-> s.Parts, Points |-> s.Points,
     NumParts |-> s.NumParts, NumPoints |-> s.NumPoints,
     ZArray |-> [k \in 1..s.NumPoints |-> 100 + k]]

LineShapes == PolyLineShapes \cup {WithZ(s) : s \in PolyLineShapes}

\* rings of a polygon shape, as point sequences
RingA == <<Pt(0, 0), Pt(0, 2), Pt(2, 2), Pt(2, 0), Pt(0, 0)>>
RingHole == <<Pt(1, 1), Pt(2, 1), Pt(1, 2), Pt(1, 1)>>
RingB == <<Pt(5, 5), Pt(5, 6), Pt(6, 5), Pt(5, 5)>>
RingFlat == <<Pt(3, 3), Pt(4, 4), Pt(3, 3)>>
RingCatalog == {RingA, RingHole, RingB, RingFlat}

RECURSIVE PartStarts(_, _)
PartStarts(rings, from) ==
    IF rings = <<>> THEN <<>>
    ELSE <<from>> \o PartStarts(Tail(rings), from + Len(Head(rings)))

RingSeqs(len) == [1..len -> RingCatalog]

MakePolygon(rings) ==
    [type |-> "Polygon", Parts |-> PartStarts(rings, 0),
     Points |-> Flatten(rings),
     NumParts |-> Len(rings), NumPoints |-> Len(Flatten(rings))]

PolygonShapes == {MakePolygon(rs) : rs \in UNION {RingSeqs(k) : k \in 0..MaxRings}}

\* declared fields and the dbf cells of one record
FieldNames == {"name", "pop"}
Cells == {[ok |-> TRUE, value |-> "A"], [ok |-> TRUE, value |-> "42"],
          [ok |-> FALSE, value |-> ""]}
FieldLists == UNION {[1..k -> FieldNames] : k \in 0..MaxFields}
RowsOf(flds) == [1..Len(flds) -> Cells]

APoint == [type |-> "Point", X |-> 3, Y |-> 4]
NoShape == [type |-> "none"]

\* ----------------------------------------------------- idle components
MainIdle ==
    /\ input = "" /\ output = "-" /\ ndjson = FALSE /\ pretty = FALSE
    /\ records = <<>>
    /\ pc = "idle" /\ n = 0 /\ features = <<>> /\ out = "none"
    /\ outFile = "untouched" /\ indent = FALSE /\ fi = 0 /\ sink = <<>>
    /\ results = <<>> /\ exit = -1

ConvIdle ==
    /\ shape = NoShape /\ dbfRow = <<>> /\ cpc = "idle" /\ i = 0
    /\ g = <<>> /\ poly = <<>> /\ result = NilGeometry

\* ------------------------------------- one call of a line conversion
InitLine ==
    /\ MainIdle
    /\ fields = <<>> /\ dbfRow = <<>>
    /\ shape \in LineShapes
    /\ cpc = "call" /\ i = 0 /\ g = <<>> /\ poly = <<>>
    /\ result = NilGeometry

\* ShapeToFeature's dispatch on a PolyLine / PolyLineZ and the conversion
ConvertLine ==
    /\ cpc = "call"
    /\ result' = ShapeToFeature(shape, <<>>).geometry
    /\ cpc' = "done"
    /\ UNCHANGED <<flagVars, fileVars, mainVars, shape, dbfRow, i, g, poly>>

NextLine == ConvertLine
SpecLine == InitLine /\ [][NextLine]_vars

\* ------------------------------------- one call of convertMultiPolygon
InitPoly ==
    /\ MainIdle
    /\ fields = <<>> /\ dbfRow = <<>>
    /\ shape \in PolygonShapes
    /\ cpc = "loop" /\ i = 0 /\ g = <<>> /\ poly = <<>>
    /\ result = NilGeometry

\* one iteration of the loop over s.Parts
PolyLoop ==
    /\ cpc = "loop" /\ i < Len(shape.Parts)
    /\ LET acc == PolyIter([g |-> g, poly |-> poly], shape, i)
       IN  g' = acc.g /\ poly' = acc.poly
    /\ i' = i + 1
    /\ UNCHANGED <<flagVars, fileVars, mainVars, shape, dbfRow, cpc, result>>

\* the return after the loop
PolyReturn ==
    /\ cpc = "loop" /\ i = Len(shape.Parts)
    /\ result' = [type |-> "MultiPolygon",
                  coordinates |-> PolyReturnValue([g |-> g, poly |-> poly])]
    /\ cpc' = "done"
    /\ UNCHANGED <<flagVars, fileVars, mainVars, shape, dbfRow, i, g, poly>>

NextPoly == PolyLoop \/ PolyReturn
SpecPoly == InitPoly /\ [][NextPoly]_vars

\* ------------------- one record's attributes read and made properties
InitAttr ==
    /\ MainIdle
    /\ fields \in FieldLists
    /\ dbfRow \in RowsOf(fields)
    /\ shape = APoint
    /\ cpc = "call" /\ i = 0 /\ g = <<>> /\ poly = <<>>
    /\ result = NilGeometry

\* the body of main's record loop for one record
ConvertRecord ==
    /\ cpc = "call"
    /\ result' = ShapeToFeature(shape, ReadAttrs(fields, dbfRow, 1))
    /\ cpc' = "done"
    /\ UNCHANGED <<flagVars, fileVars, mainVars, shape, dbfRow, i, g, poly>>

NextAttr == ConvertRecord
SpecAttr == InitAttr /\ [][NextAttr]_vars

\* ------------------------------------------------------ the whole run
\* records a shapefile can hold: a shape and the dbf cells of its row
CellA == [ok |-> TRUE, value |-> "A"]
Cell42 == [ok |-> TRUE, value |-> "42"]
CellAbsent == [ok |-> FALSE, value |-> ""]

RecordCatalog ==
    {[shape |-> APoint, row |-> <<CellA, Cell42>>],
     [shape |-> [type |-> "PolyLine", Parts |-> <<>>, Points |-> <<>>,
                 NumParts |-> 0, NumPoints |-> 0],
      row |-> <<CellA, CellAbsent>>],
     [shape |-> [type |-> "PolyLine", Parts |-> <<0>>, Points |-> PointBuffer(2),
                 NumParts |-> 1, NumPoints |-> 2],
      row |-> <<CellA, CellA>>],
     [shape |-> WithZ([type |-> "PolyLine", Parts |-> <<0, 2>>,
                       Points |-> PointBuffer(3),
                       NumParts |-> 2, NumPoints |-> 3]),
      row |-> <<CellAbsent, CellAbsent>>],
     [shape |-> MakePolygon(<<RingA, RingHole, RingB>>),
      row |-> <<CellAbsent, Cell42>>],
     [shape |-> [type |-> "MultiPoint", Points |-> PointBuffer(2)],
      row |-> <<Cell42, CellA>>],
     [shape |-> [type |-> "PointZ", X |-> 1, Y |-> 2, Z |-> 3],
      row |-> <<CellA, Cell42>>]}

RecordLists == UNION {[1..k -> RecordCatalog] : k \in 0..MaxRecords}

\* what one Encode call of the json.Encoder puts on the output: the value,
\* indented or not, followed by a line break
Encoded(kind, fs, ind) ==
    [kind |-> kind, features |-> fs, indent |-> ind, newline |-> TRUE]

\* the indentation of the encoder once main has configured it
EncoderIndentAlways(nd, pr) == pr

EncoderIndent(nd, pr) == IF ~nd THEN pr ELSE FALSE

\* the features carried by the documents written so far
RECURSIVE OutputFeatures(_)
OutputFeatures(docs) ==
    IF docs = <<>> THEN <<>>
    ELSE Head(docs).features \o OutputFeatures(Tail(docs))

Init ==
    /\ input \in {"", "in.shp"}
    /\ output \in {"-", "out.json"}
    /\ ndjson \in BOOLEAN
    /\ pretty \in BOOLEAN
    /\ fields \in {<<"name", "pop">>, <<"name", "name">>}
    /\ records \in RecordLists
    /\ pc = "main" /\ n = 0 /\ features = <<>> /\ out = "none"
    /\ outFile = "untouched" /\ indent = FALSE /\ fi = 0 /\ sink = <<>>
    /\ results = <<>> /\ exit = -1
    /\ ConvIdle

\* input == "": usage and os.Exit(1)
Usage ==
    /\ pc = "main" /\ input = ""
    /\ pc' = "done" /\ exit' = 1
    /\ UNCHANGED <<flagVars, fileVars, convVars,
                   n, features, out, outFile, indent, fi, sink, results>>

\* shp.Open returns an error: log.Fatalln
OpenFail ==
    /\ pc = "main" /\ input # ""
    /\ pc' = "done" /\ exit' = 1
    /\ UNCHANGED <<flagVars, fileVars, convVars,
                   n, features, out, outFile, indent, fi, sink, results>>

\* shp.Open succeeds; fields are read, the collection is created
OpenOkOpensOutput ==
    /\ pc = "main" /\ input # ""
    /\ pc' = "loop" /\ features' = <<>>
    /\ out' = (IF output \in {"", "-"} THEN "stdout" ELSE "file")
    /\ outFile' = (IF output \in {"", "-"} THEN outFile ELSE "truncated")
    /\ UNCHANGED <<flagVars, fileVars, convVars,
                   n, indent, fi, sink, results, exit>>

OpenOk ==
    /\ pc = "main" /\ input # ""
    /\ pc' = "loop" /\ features' = <<>>
    /\ UNCHANGED <<flagVars, fileVars, convVars,
                   n, out, outFile, indent, fi, sink, results, exit>>

\* the feature main's loop body makes of record k
FeatureOf(k) ==
    ShapeToFeature(records[k].shape, ReadAttrs(fields, records[k].row, 1))

\* one iteration of the record loop: reader.Next() yields a record, its
\* attributes are read, and the feature is appended to the collection
LoopRecordSkipsNil ==
    /\ pc = "loop" /\ n < Len(records)
    /\ FeatureOf(n + 1) # Panic
    /\ n' = n + 1
    /\ features' = (IF FeatureOf(n + 1).geometry = NilGeometry THEN features
                    ELSE Append(features, FeatureOf(n + 1)))
    /\ UNCHANGED <<flagVars, fileVars, convVars,
                   pc, out, outFile, indent, fi, sink, results, exit>>

LoopRecordStreams ==
    /\ pc = "loop" /\ n < Len(records)
    /\ FeatureOf(n + 1) # Panic
    /\ n' = n + 1
    /\ features' = Append(features, FeatureOf(n + 1))
    /\ IF ndjson
       THEN /\ sink' = Append(sink, Encoded("Feature", <<FeatureOf(n + 1)>>, indent))
            /\ results' = Append(results, "ok")
            /\ fi' = fi + 1
       ELSE UNCHANGED <<sink, results, fi>>
    /\ UNCHANGED <<flagVars, fileVars, convVars,
                   pc, out, outFile, indent, exit>>

LoopRecord ==
    /\ pc = "loop" /\ n < Len(records)
    /\ FeatureOf(n + 1) # Panic
    /\ n' = n + 1
    /\ features' = Append(features, FeatureOf(n + 1))
    /\ UNCHANGED <<flagVars, fileVars, convVars,
                   pc, out, outFile, indent, fi, sink, results, exit>>

\* one iteration of the record loop in which ShapeToFeature panics: the
\* panic is not recovered and the process exits with status 2
LoopPanicRecovers ==
    /\ pc = "loop" /\ n < Len(records)
    /\ FeatureOf(n + 1) = Panic
    /\ n' = n + 1
    /\ UNCHANGED <<flagVars, fileVars, convVars,
                   pc, features, out, outFile, indent, fi, sink, results, exit>>

LoopPanic ==
    /\ pc = "loop" /\ n < Len(records)
    /\ FeatureOf(n + 1) = Panic
    /\ n' = n + 1
    /\ pc' = "done" /\ exit' = 2
    /\ UNCHANGED <<flagVars, fileVars, convVars,
                   features, out, outFile, indent, fi, sink, results>>

\* reader.Next() returns false: the loop ends
LoopEnd ==
    /\ pc = "loop" /\ n = Len(records)
    /\ pc' = "getOutput"
    /\ UNCHANGED <<flagVars, fileVars, convVars,
                   n, features, out, outFile, indent, fi, sink, results, exit>>

\* getOutput with "" or "-": standard output; then the encoder is set up
GetOutputStdout ==
    /\ pc = "getOutput" /\ output \in {"", "-"}
    /\ out' = "stdout"
    /\ indent' = EncoderIndent(ndjson, pretty)
    /\ pc' = "encode"
    /\ UNCHANGED <<flagVars, fileVars, convVars,
                   n, features, outFile, fi, sink, results, exit>>

\* getOutput with a path: os.OpenFile creates / truncates the file
GetOutputFile ==
    /\ pc = "getOutput" /\ output \notin {"", "-"}
    /\ out' = "file" /\ outFile' = "truncated"
    /\ indent' = EncoderIndent(ndjson, pretty)
    /\ pc' = "encode"
    /\ UNCHANGED <<flagVars, fileVars, convVars,
                   n, features, fi, sink, results, exit>>

\* os.OpenFile returns an error: log.Fatalln
GetOutputFail ==
    /\ pc = "getOutput" /\ output \notin {"", "-"}
    /\ pc' = "done" /\ exit' = 1
    /\ UNCHANGED <<flagVars, fileVars, convVars,
                   n, features, out, outFile, indent, fi, sink, results>>

\* collection mode: encoder.Encode(collection) succeeds, main returns
EncodeCollection ==
    /\ pc = "encode" /\ ~ndjson
    /\ sink' = Append(sink, Encoded("FeatureCollection", features, indent))
    /\ results' = Append(results, "ok")
    /\ pc' = "done" /\ exit' = 0
    /\ UNCHANGED <<flagVars, fileVars, convVars,
                   n, features, out, outFile, indent, fi>>

\* collection mode: encoder.Encode(collection) returns an error: log.Fatalln
EncodeCollectionFail ==
    /\ pc = "encode" /\ ~ndjson
    /\ results' = Append(results, "err")
    /\ pc' = "done" /\ exit' = 1
    /\ UNCHANGED <<flagVars, fileVars, convVars,
                   n, features, out, outFile, indent, fi, sink>>

\* ndjson mode: encoder.Encode(feature) of the next feature succeeds
NdjsonEncode ==
    /\ pc = "encode" /\ ndjson /\ fi < Len(features)
    /\ sink' = Append(sink, Encoded("Feature", <<features[fi + 1]>>, indent))
    /\ results' = Append(results, "ok")
    /\ fi' = fi + 1
    /\ UNCHANGED <<flagVars, fileVars, convVars,
                   pc, n, features, out, outFile, indent, exit>>

\* ndjson mode: encoder.Encode(feature) returns an error, which main drops
NdjsonEncodeFail ==
    /\ pc = "encode" /\ ndjson /\ fi < Len(features)
    /\ results' = Append(results, "err")
    /\ fi' = fi + 1
    /\ UNCHANGED <<flagVars, fileVars, convVars,
                   pc, n, features, out, outFile, indent, sink, exit>>

\* ndjson mode: the loop over the features ends, main returns
NdjsonEnd ==
    /\ pc = "encode" /\ ndjson /\ fi = Len(features)
    /\ pc' = "done" /\ exit' = 0
    /\ UNCHANGED <<flagVars, fileVars, convVars,
                   n, features, out, outFile, indent, fi, sink, results>>

Next ==
    \/ Usage
    \/ OpenFail
    \/ OpenOk
    \/ LoopRecord
    \/ LoopPanic
    \/ LoopEnd
    \/ GetOutputStdout
    \/ GetOutputFile
    \/ GetOutputFail
    \/ EncodeCollection
    \/ EncodeCollectionFail
    \/ NdjsonEncode
    \/ NdjsonEncodeFail
    \/ NdjsonEnd

Spec == Init /\ [][Next]_vars

\* ======================================================= properties
\* the input rings / paths of a shape: part k (1-based) of the point buffer
\* runs from Parts[k] to Parts[k+1], the last one to NumPoints
ExpectedEnd(s, k) == IF k < s.NumParts THEN s.Parts[k + 1] ELSE s.NumPoints

ExpectedPart(s, k) ==
    [j \in 1..(ExpectedEnd(s, k) - s.Parts[k]) |->
        <<s.Points[s.Parts[k] + j].X, s.Points[s.Parts[k] + j].Y>>]

ExpectedParts(s) == [k \in 1..s.NumParts |-> ExpectedPart(s, k)]

AllPointsXY(s) == [j \in 1..s.NumPoints |-> <<s.Points[j].X, s.Points[j].Y>>]

\* C1: for a Polygon shape with numParts >= 1, the returned MultiPolygon
\* holds every input ring, in input order, and has one polygon more than
\* there are clockwise rings at index >= 1 (the polygon in progress at the
\* end of the scan is part of the result).
C1_FinalPolygonAppended ==
    (cpc = "done" /\ shape.NumParts >= 1) =>
        /\ Flatten(result.coordinates) = ExpectedParts(shape)
        /\ Len(result.coordinates) =
             1 + Cardinality({k \in 2..shape.NumParts :
                                Orientation(ExpectedPart(shape, k)) = CW})

\* C2: a PolyLine / PolyLineZ with more than one part converts to a
\* MultiLineString of exactly NumParts line strings, the k-th being the
\* points of part k in order, so that all points appear once and in order.
C2_MultiLineSplit ==
    (cpc = "done" /\ shape.NumParts > 1) =>
        /\ result.type = "MultiLineString"
        /\ Len(result.coordinates) = shape.NumParts
        /\ \A k \in 1..shape.NumParts :
              result.coordinates[k] = ExpectedPart(shape, k)
        /\ Flatten(result.coordinates) = AllPointsXY(shape)

C2_Witness ==
    /\ cpc = "done" /\ shape.type = "PolyLineZ"
    /\ shape.Parts = <<0, 3, 7>> /\ shape.NumPoints = 10
    /\ Len(result.coordinates) = 3
    /\ Len(result.coordinates[1]) = 3
    /\ Len(result.coordinates[2]) = 4
    /\ Len(result.coordinates[3]) = 3

\* C7 (as stated): a field whose lookup returns absent never has its name
\* among the feature's property keys, the record is still converted, and
\* the keys are exactly the names of the fields whose lookup returned a
\* value.
C7_AbsentFieldNeverKey ==
    cpc = "done" =>
        /\ result.type = "Feature"
        /\ \A k \in 1..Len(fields) :
              ~dbfRow[k].ok => fields[k] \notin Keys(result.properties)
        /\ Keys(result.properties) =
              {fields[k] : k \in {j \in 1..Len(fields) : dbfRow[j].ok}}

\* C7 (amended): a field whose lookup returns absent does not put its name
\* among the property keys; the name is a key only when some declared field
\* of that name returned a value. The record is still converted, the keys are
\* exactly the names of the fields whose lookup returned a value, and each
\* key has one value.
C7_AbsentFieldOmitted ==
    cpc = "done" =>
        /\ result.type = "Feature"
        /\ result.geometry = [type |-> "Point", coordinates |-> <<3, 4>>]
        /\ \A k \in 1..Len(fields) :
              (/\ ~dbfRow[k].ok
               /\ \A j \in 1..Len(fields) : fields[j] = fields[k] => ~dbfRow[j].ok)
              => fields[k] \notin Keys(result.properties)
        /\ Keys(result.properties) =
              {fields[k] : k \in {j \in 1..Len(fields) : dbfRow[j].ok}}
        /\ Cardinality(result.properties) = Cardinality(Keys(result.properties))

C7_Witness ==
    /\ cpc = "done"
    /\ fields = <<"name", "pop">>
    /\ dbfRow[1] = [ok |-> TRUE, value |-> "A"]
    /\ ~dbfRow[2].ok
    /\ result.properties = {[name |-> "name", value |-> "A"]}

\* C8: at every step of the ring scan, once ring 0 has been processed, the
\* finished polygons followed by the polygon in progress hold the rings
\* scanned so far in input order; ring 0 is the first ring of the first
\* polygon; every other polygon starts with a clockwise ring (one polygon
\* was closed per clockwise ring at index >= 1); every later ring of a
\* polygon is not clockwise; no polygon has zero rings.
C8_ScanInvariant ==
    LET all == g \o <<poly>>
        seen == [k \in 1..i |-> ExpectedPart(shape, k)]
    IN  /\ i = 0 => (g = <<>> /\ poly = <<>>)
        /\ i >= 1 =>
            /\ \A p \in 1..Len(all) : Len(all[p]) >= 1
            /\ all[1][1] = ExpectedPart(shape, 1)
            /\ \A p \in 2..Len(all) : Orientation(all[p][1]) = CW
            /\ \A p \in 1..Len(all) :
                  \A j \in 2..Len(all[p]) : Orientation(all[p][j]) # CW
            /\ Flatten(all) = seen
            /\ Len(g) = Cardinality({k \in 2..i : Orientation(seen[k]) = CW})

C8_Witness ==
    /\ cpc = "loop" /\ i = 3
    /\ Len(g) = 1 /\ Len(g[1]) = 1
    /\ Len(poly) = 2
    /\ Orientation(poly[1]) = CW /\ Orientation(poly[2]) = CCW

\* ---------------------------------------------- properties of the run
\* the conversion of every record, in record order
AllConverted == [k \in 1..Len(records) |-> FeatureOf(k)]

NoEncodeError == \A k \in 1..Len(results) : results[k] = "ok"

\* C3: the collection holds the conversion of the records read so far, in
\* record order; and a run that ends normally with every write accepted
\* has put exactly the conversion of record k as k-th feature of the
\* output, as many features as there are records, in both output modes.
C3_FeaturePerRecord ==
    /\ pc \in {"loop", "getOutput", "encode"} =>
          /\ Len(features) = n
          /\ \A k \in 1..n : features[k] = FeatureOf(k)
    /\ pc \in {"getOutput", "encode"} => features = AllConverted
    /\ (pc = "done" /\ exit = 0 /\ NoEncodeError) =>
          /\ Len(OutputFeatures(sink)) = Len(records)
          /\ OutputFeatures(sink) = AllConverted

C3_Witness ==
    /\ pc = "done" /\ exit = 0 /\ ~ndjson /\ NoEncodeError
    /\ Len(records) = 2
    /\ Len(sink) = 1 /\ Len(sink[1].features) = 2
    /\ sink[1].features[1].geometry = NilGeometry
    /\ sink[1].features[2].geometry.type = "MultiPolygon"

\* C4: an Encode call that returns an error ends the run at once with a
\* non-zero exit status: it is the last Encode call of the run, in both
\* output modes.
C4_WriteFailureFatal ==
    \A k \in 1..Len(results) :
        results[k] = "err" =>
            /\ k = Len(results)
            /\ pc = "done"
            /\ exit # 0

\* C5: once a record with an unsupported shape has been read, the run is
\* over with a non-zero exit status: that record is the last one read, it
\* has no feature, and nothing is opened or written.
C5_UnsupportedShapeAborts ==
    \A k \in 1..n :
        records[k].shape.type \notin SupportedTypes =>
            /\ k = n
            /\ pc = "done"
            /\ exit \notin {-1, 0}
            /\ Len(features) = k - 1
            /\ sink = <<>> /\ results = <<>>

C5_Witness ==
    /\ pc = "done" /\ exit = 2
    /\ Len(records) = 2 /\ n = 1
    /\ records[1].shape.type = "PointZ"
    /\ features = <<>>

\* C6: in ndjson mode every document written is a single feature, not
\* indented and followed by a line break, whatever the pretty flag; and a
\* run that ends normally with every write accepted has written exactly
\* one such document per record, in record order.
C6_NdjsonDocuments ==
    ndjson =>
        /\ \A d \in 1..Len(sink) :
              /\ sink[d].kind = "Feature"
              /\ Len(sink[d].features) = 1
              /\ ~sink[d].indent
              /\ sink[d].newline
        /\ (pc = "done" /\ exit = 0 /\ NoEncodeError) =>
              /\ Len(sink) = Len(records)
              /\ \A d \in 1..Len(sink) :
                    sink[d] = [kind |-> "Feature", features |-> <<FeatureOf(d)>>,
                               indent |-> FALSE, newline |-> TRUE]

C6_Witness ==
    /\ ndjson /\ pretty
    /\ pc = "done" /\ exit = 0 /\ NoEncodeError
    /\ Len(records) = 2 /\ Len(sink) = 2
    /\ ~sink[1].indent /\ ~sink[2].indent

\* C9 (as stated): in ndjson mode the feature of record k is written
\* before record k+1 is read, so that at most one converted feature is
\* ever held unwritten.
C9_StreamsEachFeature ==
    ndjson => (n - fi <= 1 /\ Len(features) - fi <= 1)

\* C9 (amended): in ndjson mode nothing is written while records are
\* being read: every converted feature is held in the collection until the
\* record loop has ended, and only then are the features encoded one by
\* one in record order; the collection is built by the same loop in both
\* modes.
C9_BufferedThenWritten ==
    /\ pc = "loop" => (Len(features) = n /\ fi = 0 /\ sink = <<>> /\ results = <<>>)
    /\ ndjson =>
          /\ (fi > 0 \/ sink # <<>> \/ results # <<>>) =>
                (n = Len(records) /\ Len(features) = Len(records))
          /\ Len(results) = fi
          /\ fi <= Len(features)
          /\ Len(sink) = Cardinality({k \in 1..fi : results[k] = "ok"})
          /\ NoEncodeError => \A k \in 1..fi : sink[k].features = <<features[k]>>

C9_Witness ==
    /\ ndjson /\ pc = "encode"
    /\ Len(features) = 2 /\ fi = 0 /\ sink = <<>>

\* C10: the output file is created / truncated, and anything written, only
\* after the record loop has ended with every record converted; a run that
\* stops earlier leaves the output untouched.
C10_OutputOpenedAfterLoop ==
    /\ (out # "none" \/ outFile # "untouched" \/ sink # <<>>) =>
          /\ pc \in {"encode", "done"}
          /\ n = Len(records)
          /\ features = AllConverted
    /\ (pc = "done" /\ (input = "" \/ n < Len(records) \/ Len(features) < n)) =>
          /\ exit # 0
          /\ out = "none" /\ outFile = "untouched" /\ sink = <<>>

C10_Witness ==
    /\ pc = "done" /\ exit = 2 /\ output = "out.json"
    /\ n = Len(records) /\ Len(features) = n - 1
    /\ outFile = "untouched" /\ sink = <<>>

====
